---------------------------- MODULE Spec2Model ----------------------------
(***************************************************************************)
(* Model of src/mappings/spacing.ts (convertSpacing) and the theme-scales  *)
(* part it imports (spacingScale, remToScaleMap, pxToScaleMap,             *)
(* removeSpaces, normalizeToRem, normalizeSpacing).                        *)
(*                                                                         *)
(* A JavaScript string is a sequence of one-character strings, so that    *)
(* startsWith, endsWith, includes, replace, parseFloat, parseInt and the   *)
(* number-to-string conversion are computed character by character.       *)
(* A JavaScript number is a record [nan, v]: v is the value times Den      *)
(* (decimal fixed point).  Every number the inputs below produce is a      *)
(* decimal with at most FracDigits fractional digits, and the arithmetic   *)
(* the code does on them is * 4, * 16 and / 16, which IEEE doubles do      *)
(* without changing the printed decimal, so the fixed point is exact.      *)
(***************************************************************************)
EXTENDS Integers, Sequences, FiniteSets, TLC

(***************************************************************************)
(* Bounds of the model.                                                    *)
(***************************************************************************)
\* longest ordered sequence (responsive array) a call is given
MaxLen == 4
\* most entries of a keyed collection (responsive object) a call is given
MaxEntries == 2
\* number of convertSpacing calls in flight in the interleaved specification
NumCalls == 2

\* fractional digits of the fixed point: one for a pixel input such as
\* '16.5px' and four more for its division by 16 (the rem lengths of the
\* table need three)
FracDigits == 1 + 4
Den == 10 ^ FracDigits

(***************************************************************************)
(* Strings.                                                                *)
(***************************************************************************)
Digits == <<"0", "1", "2", "3", "4", "5", "6", "7", "8", "9">>
DigitChars == {Digits[i] : i \in 1..10}
DigitVal(c) == (CHOOSE i \in 1..10 : Digits[i] = c) - 1
\* the characters /\s/ matches, among those the inputs use
WhiteSpace == {" ", "\t", "\n"}

startsWith(s, p) == Len(s) >= Len(p) /\ SubSeq(s, 1, Len(p)) = p
endsWith(s, p) == Len(s) >= Len(p) /\ SubSeq(s, Len(s) - Len(p) + 1, Len(s)) = p
includes(s, p) == \E i \in 1..(Len(s) - Len(p) + 1) : SubSeq(s, i, i + Len(p) - 1) = p
\* value.replace(/\s+/g, "")
ReplaceSpaces(s) == SelectSeq(s, LAMBDA c : c \notin WhiteSpace)

RECURSIVE Join(_, _)
\* Array.prototype.join
Join(items, sep) ==
  IF items = <<>> THEN <<>>
  ELSE IF Len(items) = 1 THEN items[1]
  ELSE items[1] \o sep \o Join(Tail(items), sep)

(***************************************************************************)
(* Numbers.                                                                *)
(***************************************************************************)
NaN == [nan |-> TRUE, v |-> 0]
Number(v) == [nan |-> FALSE, v |-> v]
Abs(x) == IF x < 0 THEN -x ELSE x

\* length of the longest prefix of s made of decimal digits
RECURSIVE DigitRun(_)
DigitRun(s) ==
  IF s # <<>> /\ Head(s) \in DigitChars THEN 1 + DigitRun(Tail(s)) ELSE 0

\* the natural number a digit string denotes
RECURSIVE DigitsValue(_)
DigitsValue(s) ==
  IF s = <<>> THEN 0
  ELSE 10 * DigitsValue(SubSeq(s, 1, Len(s) - 1)) + DigitVal(s[Len(s)])

RECURSIVE TrimStart(_)
\* the leading white space parseFloat and parseInt skip
TrimStart(s) ==
  IF s # <<>> /\ Head(s) \in WhiteSpace THEN TrimStart(Tail(s)) ELSE s

\* Number.parseFloat: optional sign, then the longest prefix that is a
\* decimal literal (digits, digits '.', digits '.' digits, '.' digits).
\* Exponents and 'Infinity' do not occur in the inputs of the model.
parseFloat(str) ==
  LET s    == TrimStart(str)
      neg  == s # <<>> /\ Head(s) = "-"
      body == IF s # <<>> /\ Head(s) \in {"-", "+"} THEN Tail(s) ELSE s
      ni   == DigitRun(body)
      rest == SubSeq(body, ni + 1, Len(body))
      nf   == IF rest # <<>> /\ Head(rest) = "." THEN DigitRun(Tail(rest)) ELSE 0
      int  == DigitsValue(SubSeq(body, 1, ni))
      frac == DigitsValue(SubSeq(rest, 2, nf + 1)) * (10 ^ (FracDigits - nf))
      mag  == int * Den + frac
  IN  IF ni = 0 /\ nf = 0 THEN NaN
      ELSE Number(IF neg THEN -mag ELSE mag)

\* Number.parseInt with no radix: optional sign, then the leading digits
parseInt(str) ==
  LET s    == TrimStart(str)
      neg  == s # <<>> /\ Head(s) = "-"
      body == IF s # <<>> /\ Head(s) \in {"-", "+"} THEN Tail(s) ELSE s
      ni   == DigitRun(body)
      mag  == DigitsValue(SubSeq(body, 1, ni)) * Den
  IN  IF ni = 0 THEN NaN
      ELSE Number(IF neg THEN -mag ELSE mag)

RECURSIVE NatToString(_)
NatToString(n) ==
  IF n < 10 THEN <<Digits[n + 1]>>
  ELSE NatToString(n \div 10) \o <<Digits[(n % 10) + 1]>>

\* the fractional digits of f / 10^width, trailing zeros dropped
RECURSIVE FracToString(_, _)
FracToString(f, width) ==
  IF f = 0 THEN <<>>
  ELSE LET unit == 10 ^ (width - 1)
       IN  <<Digits[(f \div unit) + 1]>> \o FracToString(f % unit, width - 1)

\* Number::toString, as `${x}` and x.toString() apply it
NumberToString(x) ==
  IF x.nan THEN <<"N", "a", "N">>
  ELSE LET m    == Abs(x.v)
           frac == FracToString(m % Den, FracDigits)
       IN  (IF x.v < 0 THEN <<"-">> ELSE <<>>)
           \o NatToString(m \div Den)
           \o (IF frac = <<>> THEN <<>> ELSE <<".">> \o frac)

(***************************************************************************)
(* JavaScript values and objects.                                          *)
(***************************************************************************)
\* the values of type number | string | null
Null == [t |-> "null", n |-> NaN, s |-> <<>>]
Num(x) == [t |-> "num", n |-> x, s |-> <<>>]
Str(s) == [t |-> "str", n |-> NaN, s |-> s]

\* An object is the sequence of its own properties [key, val] in insertion
\* order.  A key is an array index when it is the canonical decimal form of
\* an integer below 2^32 - 1 (keys of at most nine digits here).
IsArrayIndex(k) ==
  /\ Len(k) \in 1..9
  /\ \A i \in 1..Len(k) : k[i] \in DigitChars
  /\ Len(k) = 1 \/ k[1] # "0"

RECURSIVE SortByIndex(_)
SortByIndex(entries) ==
  IF entries = <<>> THEN <<>>
  ELSE LET i == CHOOSE i \in 1..Len(entries) :
                  \A j \in 1..Len(entries) :
                    DigitsValue(entries[i].key) <= DigitsValue(entries[j].key)
       IN  <<entries[i]>>
           \o SortByIndex(SubSeq(entries, 1, i - 1) \o SubSeq(entries, i + 1, Len(entries)))

\* Object.entries: the array-index keys in ascending numeric order, then the
\* other string keys in insertion order (OrdinaryOwnPropertyKeys)
ObjectEntries(obj) ==
  SortByIndex(SelectSeq(obj, LAMBDA e : IsArrayIndex(e.key)))
  \o SelectSeq(obj, LAMBDA e : ~IsArrayIndex(e.key))

\* Map.prototype.set and Map.prototype.get; a Map is a function on its keys
MapSet(m, k, v) == (k :> v) @@ m
MapGet(m, k) == IF k \in DOMAIN m THEN [def |-> TRUE, s |-> m[k]]
                ELSE [def |-> FALSE, s |-> <<>>]
\* if (x): neither undefined/null nor the empty string
Truthy(r) == r.def /\ r.s # <<>>
EmptyMap == [k \in {} |-> <<>>]

(***************************************************************************)
(* The scale table and its two derived maps.                               *)
(***************************************************************************)
\* export const spacingScale = {...}: the entries in the order the literal
\* declares them
spacingScaleDecl ==
  <<
     [key |-> <<"p", "x">>, val |-> <<"1", "p", "x">>],
     [key |-> <<"0">>, val |-> <<"0">>],
     [key |-> <<"0", ".", "5">>, val |-> <<"0", ".", "1", "2", "5", "r", "e", "m">>],
     [key |-> <<"1">>, val |-> <<"0", ".", "2", "5", "r", "e", "m">>],
     [key |-> <<"1", ".", "5">>, val |-> <<"0", ".", "3", "7", "5", "r", "e", "m">>],
     [key |-> <<"2">>, val |-> <<"0", ".", "5", "r", "e", "m">>],
     [key |-> <<"2", ".", "5">>, val |-> <<"0", ".", "6", "2", "5", "r", "e", "m">>],
     [key |-> <<"3">>, val |-> <<"0", ".", "7", "5", "r", "e", "m">>],
     [key |-> <<"3", ".", "5">>, val |-> <<"0", ".", "8", "7", "5", "r", "e", "m">>],
     [key |-> <<"4">>, val |-> <<"1", "r", "e", "m">>],
     [key |-> <<"5">>, val |-> <<"1", ".", "2", "5", "r", "e", "m">>],
     [key |-> <<"6">>, val |-> <<"1", ".", "5", "r", "e", "m">>],
     [key |-> <<"7">>, val |-> <<"1", ".", "7", "5", "r", "e", "m">>],
     [key |-> <<"8">>, val |-> <<"2", "r", "e", "m">>],
     [key |-> <<"9">>, val |-> <<"2", ".", "2", "5", "r", "e", "m">>],
     [key |-> <<"1", "0">>, val |-> <<"2", ".", "5", "r", "e", "m">>],
     [key |-> <<"1", "2">>, val |-> <<"3", "r", "e", "m">>],
     [key |-> <<"1", "4">>, val |-> <<"3", ".", "5", "r", "e", "m">>],
     [key |-> <<"1", "6">>, val |-> <<"4", "r", "e", "m">>],
     [key |-> <<"2", "0">>, val |-> <<"5", "r", "e", "m">>],
     [key |-> <<"2", "4">>, val |-> <<"6", "r", "e", "m">>],
     [key |-> <<"2", "8">>, val |-> <<"7", "r", "e", "m">>],
     [key |-> <<"3", "2">>, val |-> <<"8", "r", "e", "m">>],
     [key |-> <<"3", "6">>, val |-> <<"9", "r", "e", "m">>],
     [key |-> <<"4", "0">>, val |-> <<"1", "0", "r", "e", "m">>],
     [key |-> <<"4", "4">>, val |-> <<"1", "1", "r", "e", "m">>],
     [key |-> <<"4", "8">>, val |-> <<"1", "2", "r", "e", "m">>],
     [key |-> <<"5", "2">>, val |-> <<"1", "3", "r", "e", "m">>],
     [key |-> <<"5", "6">>, val |-> <<"1", "4", "r", "e", "m">>],
     [key |-> <<"6", "0">>, val |-> <<"1", "5", "r", "e", "m">>],
     [key |-> <<"6", "4">>, val |-> <<"1", "6", "r", "e", "m">>],
     [key |-> <<"7", "2">>, val |-> <<"1", "8", "r", "e", "m">>],
     [key |-> <<"8", "0">>, val |-> <<"2", "0", "r", "e", "m">>],
     [key |-> <<"9", "6">>, val |-> <<"2", "4", "r", "e", "m">>]
  >>

\* for (const [key, value] of Object.entries(spacingScale))
\*   if (value.endsWith("rem")) remToScaleMap.set(value, key)
RECURSIVE BuildRemToScaleMap(_, _)
BuildRemToScaleMap(entries, m) ==
  IF entries = <<>> THEN m
  ELSE LET e == Head(entries)
       IN  BuildRemToScaleMap(Tail(entries),
             IF endsWith(e.val, <<"r", "e", "m">>) THEN MapSet(m, e.val, e.key) ELSE m)

\* the pixel value one loop iteration computes for a length, or none (continue)
PxOfLength(value) ==
  IF endsWith(value, <<"p", "x">>) THEN [def |-> TRUE, px |-> parseInt(value)]
  ELSE IF endsWith(value, <<"r", "e", "m">>)
    THEN [def |-> TRUE, px |-> LET f == parseFloat(value)
                               IN  IF f.nan THEN NaN ELSE Number(f.v * 16)]
  ELSE IF value = <<"0">> THEN [def |-> TRUE, px |-> Number(0)]
  ELSE [def |-> FALSE, px |-> NaN]

\* for (const [key, value] of Object.entries(spacingScale)) { ... pxToScaleMap.set(px, key) }
RECURSIVE BuildPxToScaleMap(_, _)
BuildPxToScaleMap(entries, m) ==
  IF entries = <<>> THEN m
  ELSE LET e == Head(entries)
           p == PxOfLength(e.val)
       IN  BuildPxToScaleMap(Tail(entries),
             IF p.def THEN MapSet(m, p.px, e.key) ELSE m)

VARIABLES
  spacingScale,    \* the module's scale table object
  remToScaleMap,   \* Map<string, string>: rem length -> step
  pxToScaleMap     \* Map<number, string>: pixels -> step

tables == <<spacingScale, remToScaleMap, pxToScaleMap>>

(***************************************************************************)
(* The normalizer.                                                         *)
(***************************************************************************)
\* const removeSpaces = (value: string): string
removeSpaces(value) ==
  IF includes(value, <<"c", "a", "l", "c">>) \/ includes(value, <<"c", "l", "a", "m", "p">>)
    THEN ReplaceSpaces(value)
    ELSE value

\* normalizeToRem without its "already rem" case
normalizeToRemPxOnly(value) ==
  IF endsWith(value, <<"p", "x">>)
    THEN LET px == parseFloat(value)
         IN  [def |-> TRUE,
              s |-> NumberToString(IF px.nan THEN NaN ELSE Number(px.v \div 16))
                      \o <<"r", "e", "m">>]
  ELSE [def |-> FALSE, s |-> <<>>]

\* const normalizeToRem = (value: string): string | null
normalizeToRem(value) ==
  IF endsWith(value, <<"p", "x">>)
    THEN LET px == parseFloat(value)
         IN  [def |-> TRUE,
              s |-> NumberToString(IF px.nan THEN NaN ELSE Number(px.v \div 16))
                      \o <<"r", "e", "m">>]
  ELSE IF endsWith(value, <<"r", "e", "m">>) THEN [def |-> TRUE, s |-> value]
  ELSE [def |-> FALSE, s |-> <<>>]

\* the typeof value === "number" branch of normalizeSpacing
normalizeNumber(value) ==
  IF ~value.nan /\ value.v = 0 THEN <<"0">>
  ELSE IF ~value.nan /\ value.v < 0
    THEN <<"[", "-">> \o NumberToString(Number(Abs(value.v * 4))) \o <<"p", "x", "]">>
  ELSE NumberToString(value)

\* the string branch of normalizeSpacing, from removeSpaces on
normalizeString(value) ==
  LET cleanValue == removeSpaces(value)
      remValue   == normalizeToRem(cleanValue)
      remScale   == MapGet(remToScaleMap, remValue.s)
      px         == parseInt(cleanValue)
      absPx      == IF px.nan THEN NaN ELSE Number(Abs(px.v))
      pxScale    == MapGet(pxToScaleMap, absPx)
      negLiteral == <<"[", "-">> \o NumberToString(absPx) \o <<"p", "x", "]">>
  IN  IF cleanValue \in {<<"0">>, <<"0", "p", "x">>, <<"0", "r", "e", "m">>} THEN <<"0">>
      ELSE IF Truthy(remValue) /\ Truthy(remScale) THEN remScale.s
      ELSE IF endsWith(cleanValue, <<"p", "x">>)
        THEN IF Truthy(pxScale)
               THEN IF ~px.nan /\ px.v < 0 THEN negLiteral ELSE pxScale.s
               ELSE IF ~px.nan /\ px.v < 0 THEN negLiteral
                    ELSE <<"[">> \o NumberToString(px) \o <<"p", "x", "]">>
      ELSE <<"[">> \o cleanValue \o <<"]">>

\* export const normalizeSpacing = (value: number | string | null): string
normalizeSpacing(value) ==
  IF value.t = "null" THEN <<>>
  ELSE IF value = Str(<<"a", "u", "t", "o">>) THEN <<"a", "u", "t", "o">>
  ELSE IF value.t = "str" /\ startsWith(value.s, <<"-">>) /\ ~parseFloat(value.s).nan
    THEN normalizeNumber(parseFloat(value.s))
  ELSE IF value.t = "num" THEN normalizeNumber(value.n)
  ELSE normalizeString(value.s)

(***************************************************************************)
(* The class synthesizer.                                                  *)
(***************************************************************************)
\* export const propertyPrefixMap: Record<SpacingProperty, string>
propertyPrefixMap ==
  [p \in {
      "margin", "marginTop", "marginRight", "marginBottom",
      "marginLeft", "marginX", "marginY", "marginInline",
      "marginInlineStart", "marginInlineEnd", "marginBlock",
      "marginBlockStart", "marginBlockEnd", "m", "mt", "mr", "mb",
      "ml", "mx", "my", "ms", "me", "padding", "paddingTop",
      "paddingRight", "paddingBottom", "paddingLeft", "paddingX",
      "paddingY", "paddingInline", "paddingInlineStart",
      "paddingInlineEnd", "paddingBlock", "paddingBlockStart",
      "paddingBlockEnd", "p", "pt", "pr", "pb", "pl", "px", "py",
      "ps", "pe", "gap", "rowGap", "columnGap", "space"} |->
     CASE p = "margin" -> <<"m">>
       [] p = "marginTop" -> <<"m", "t">>
       [] p = "marginRight" -> <<"m", "r">>
       [] p = "marginBottom" -> <<"m", "b">>
       [] p = "marginLeft" -> <<"m", "l">>
       [] p = "marginX" -> <<"m", "x">>
       [] p = "marginY" -> <<"m", "y">>
       [] p = "marginInline" -> <<"m", "x">>
       [] p = "marginInlineStart" -> <<"m", "s">>
       [] p = "marginInlineEnd" -> <<"m", "e">>
       [] p = "marginBlock" -> <<"m", "y">>
       [] p = "marginBlockStart" -> <<"m", "t">>
       [] p = "marginBlockEnd" -> <<"m", "b">>
       [] p = "m" -> <<"m">>
       [] p = "mt" -> <<"m", "t">>
       [] p = "mr" -> <<"m", "r">>
       [] p = "mb" -> <<"m", "b">>
       [] p = "ml" -> <<"m", "l">>
       [] p = "mx" -> <<"m", "x">>
       [] p = "my" -> <<"m", "y">>
       [] p = "ms" -> <<"m", "s">>
       [] p = "me" -> <<"m", "e">>
       [] p = "padding" -> <<"p">>
       [] p = "paddingTop" -> <<"p", "t">>
       [] p = "paddingRight" -> <<"p", "r">>
       [] p = "paddingBottom" -> <<"p", "b">>
       [] p = "paddingLeft" -> <<"p", "l">>
       [] p = "paddingX" -> <<"p", "x">>
       [] p = "paddingY" -> <<"p", "y">>
       [] p = "paddingInline" -> <<"p", "x">>
       [] p = "paddingInlineStart" -> <<"p", "s">>
       [] p = "paddingInlineEnd" -> <<"p", "e">>
       [] p = "paddingBlock" -> <<"p", "y">>
       [] p = "paddingBlockStart" -> <<"p", "t">>
       [] p = "paddingBlockEnd" -> <<"p", "b">>
       [] p = "p" -> <<"p">>
       [] p = "pt" -> <<"p", "t">>
       [] p = "pr" -> <<"p", "r">>
       [] p = "pb" -> <<"p", "b">>
       [] p = "pl" -> <<"p", "l">>
       [] p = "px" -> <<"p", "x">>
       [] p = "py" -> <<"p", "y">>
       [] p = "ps" -> <<"p", "s">>
       [] p = "pe" -> <<"p", "e">>
       [] p = "gap" -> <<"g", "a", "p">>
       [] p = "rowGap" -> <<"g", "a", "p", "-", "y">>
       [] p = "columnGap" -> <<"g", "a", "p", "-", "x">>
       [] p = "space" -> <<"s", "p", "a", "c", "e">>]
\* `${x}` of a looked-up string that may be undefined
TemplateOf(r) == IF r.def THEN r.s ELSE <<"u", "n", "d", "e", "f", "i", "n", "e", "d">>

\* PrefixOf with the inline-start edge taken for the left edge
PrefixOfInlineStartAsLeft(property) ==
  IF property = "marginInlineStart" THEN <<"m", "l">>
  ELSE IF property = "paddingInlineStart" THEN <<"p", "l">>
  ELSE TemplateOf(IF property \in DOMAIN propertyPrefixMap
                    THEN [def |-> TRUE, s |-> propertyPrefixMap[property]]
                    ELSE [def |-> FALSE, s |-> <<>>])

\* const prefix = propertyPrefixMap[property], as the templates render it
PrefixOf(property) ==
  TemplateOf(IF property \in DOMAIN propertyPrefixMap
               THEN [def |-> TRUE, s |-> propertyPrefixMap[property]]
               ELSE [def |-> FALSE, s |-> <<>>])

\* const breakpoints = ["", "sm", "md", "lg", "xl", "2xl"]
breakpoints == <<<<>>, <<"s", "m">>, <<"m", "d">>, <<"l", "g">>, <<"x", "l">>, <<"2", "x", "l">>>>

\* breakpoints[validIndex], zero-based, undefined past the end
BreakpointAt(validIndex) ==
  IF validIndex + 1 \in 1..Len(breakpoints)
    THEN [def |-> TRUE, s |-> breakpoints[validIndex + 1]]
    ELSE [def |-> FALSE, s |-> <<>>]

\* an element of a mapped array: a class token or null
NullItem == [def |-> FALSE, s |-> <<>>]
Item(s) == [def |-> TRUE, s |-> s]

\* normalizedValue ? `${bp}${prefix}-${normalizedValue}` : null
TokenOrNull(bp, prefix, normalizedValue) ==
  IF normalizedValue # <<>> THEN Item(bp \o prefix \o <<"-">> \o normalizedValue)
  ELSE NullItem

\* ArrayCallback with the cursor advanced on every element, null or not
ArrayCallbackPositional(v, validIndex, prefix) ==
  IF v.t = "null" THEN [item |-> NullItem, validIndex |-> validIndex + 1]
  ELSE LET breakpoint == IF validIndex = 0 THEN <<>>
                         ELSE TemplateOf(BreakpointAt(validIndex)) \o <<":">>
       IN  [item |-> TokenOrNull(breakpoint, prefix, normalizeSpacing(v)),
            validIndex |-> validIndex + 1]

\* the callback of value.map in the array branch: the mapped item and the
\* value of validIndex after it
ArrayCallback(v, validIndex, prefix) ==
  IF v.t = "null" THEN [item |-> NullItem, validIndex |-> validIndex]
  ELSE LET breakpoint == IF validIndex = 0 THEN <<>>
                         ELSE TemplateOf(BreakpointAt(validIndex)) \o <<":">>
       IN  [item |-> TokenOrNull(breakpoint, prefix, normalizeSpacing(v)),
            validIndex |-> validIndex + 1]

\* ObjectCallback without the special case of the key 'base'
ObjectCallbackNoBase(entry, prefix) ==
  TokenOrNull(entry.key \o <<":">>, prefix, normalizeSpacing(entry.val))

\* the callback of Object.entries(value).map in the object branch
ObjectCallback(entry, prefix) ==
  LET bp == IF entry.key = <<"b", "a", "s", "e">> THEN <<>> ELSE entry.key \o <<":">>
  IN  TokenOrNull(bp, prefix, normalizeSpacing(entry.val))

RECURSIVE DropNulls(_)
\* .filter((item): item is string => item !== null)
DropNulls(mapped) ==
  IF mapped = <<>> THEN <<>>
  ELSE (IF Head(mapped).def THEN <<Head(mapped).s>> ELSE <<>>) \o DropNulls(Tail(mapped))

\* .filter(...).join(" ")
FilterJoin(mapped) == Join(DropNulls(mapped), <<" ">>)

\* the value shapes of SpacingValue
Scalar(v) == [shape |-> "scalar", v |-> v, items |-> <<>>]
Array(items) == [shape |-> "array", v |-> Null, items |-> items]
Object(entries) == [shape |-> "object", v |-> Null, items |-> entries]

\* the scalar branch: normalizedValue ? `${prefix}-${normalizedValue}` : ""
ScalarResult(prefix, v) == TokenOrNull(<<>>, prefix, normalizeSpacing(v)).s

RECURSIVE MapArray(_, _, _)
\* value.map(callback) of the array branch, run to its end from validIndex
MapArray(items, validIndex, prefix) ==
  IF items = <<>> THEN <<>>
  ELSE LET r == ArrayCallback(Head(items), validIndex, prefix)
       IN  <<r.item>> \o MapArray(Tail(items), r.validIndex, prefix)

\* export const convertSpacing = (property, value): string, run alone
convertSpacing(property, value) ==
  LET prefix == PrefixOf(property)
  IN  IF value.shape = "array" THEN FilterJoin(MapArray(value.items, 0, prefix))
      ELSE IF value.shape = "object"
        THEN FilterJoin([i \in 1..Len(value.items) |->
                           ObjectCallback(ObjectEntries(value.items)[i], prefix)])
      ELSE ScalarResult(prefix, value.v)

(***************************************************************************)
(* State: the module's tables, the convertSpacing calls in flight, and    *)
(* the last direct call of normalizeSpacing.                               *)
(***************************************************************************)
VARIABLES
  calls,           \* slot -> the activation record of a convertSpacing call
  validIndex,      \* slot -> the array branch's `let validIndex` of that call
  lastNorm         \* the last direct normalizeSpacing(arg) call and what it returned

vars == <<spacingScale, remToScaleMap, pxToScaleMap, calls, validIndex, lastNorm>>

Slots == 1..NumCalls

\* `validIndex` declared at module level: one cursor for all the calls
SharedCursorSlot(c) == 1

\* the binding of `validIndex`: declared inside convertSpacing, so every
\* call has its own
CursorSlot(c) == c

IdleCall ==
  [pc |-> "idle", property |-> "", value |-> Scalar(Null), prefix |-> <<>>,
   elems |-> <<>>, i |-> 0, mapped |-> <<>>, result |-> <<>>, outcome |-> "none"]

Init ==
  /\ spacingScale = spacingScaleDecl
  /\ remToScaleMap = BuildRemToScaleMap(ObjectEntries(spacingScaleDecl), EmptyMap)
  /\ pxToScaleMap = BuildPxToScaleMap(ObjectEntries(spacingScaleDecl), EmptyMap)
  /\ calls = [c \in Slots |-> IdleCall]
  /\ validIndex = [c \in Slots |-> 0]
  /\ lastNorm = [called |-> FALSE, arg |-> Null, ret |-> <<>>]

\* convertSpacing(property, value) is entered: the prefix is resolved and the
\* branch chosen; the scalar branch returns at once
Invoke(c, property, value) ==
  /\ calls[c].pc = "idle"
  /\ LET prefix == PrefixOf(property)
         base   == [IdleCall EXCEPT !.property = property, !.value = value,
                                    !.prefix = prefix, !.i = 1]
     IN  IF value.shape = "array"
           THEN /\ calls' = [calls EXCEPT ![c] =
                      [base EXCEPT !.pc = "map", !.elems = value.items]]
                /\ validIndex' = [validIndex EXCEPT ![CursorSlot(c)] = 0]
         ELSE IF value.shape = "object"
           THEN /\ calls' = [calls EXCEPT ![c] =
                      [base EXCEPT !.pc = "entries", !.elems = ObjectEntries(value.items)]]
                /\ UNCHANGED validIndex
         ELSE /\ calls' = [calls EXCEPT ![c] =
                      [base EXCEPT !.pc = "done", !.outcome = "returned",
                                   !.result = ScalarResult(prefix, value.v)]]
              /\ UNCHANGED validIndex
  /\ UNCHANGED <<tables, lastNorm>>

\* a caller calls convertSpacing with one of the given <<property, value>> pairs
Call(c, inputs) ==
  /\ calls[c].pc = "idle"
  /\ \E in \in inputs : Invoke(c, in[1], in[2])

\* one invocation of the array branch's map callback
MapStep(c) ==
  /\ calls[c].pc = "map"
  /\ calls[c].i <= Len(calls[c].elems)
  /\ LET r == ArrayCallback(calls[c].elems[calls[c].i], validIndex[CursorSlot(c)],
                            calls[c].prefix)
     IN  /\ calls' = [calls EXCEPT ![c].mapped = Append(@, r.item), ![c].i = @ + 1]
         /\ validIndex' = [validIndex EXCEPT ![CursorSlot(c)] = r.validIndex]
  /\ UNCHANGED <<tables, lastNorm>>

\* one invocation of the object branch's map callback
EntryStep(c) ==
  /\ calls[c].pc = "entries"
  /\ calls[c].i <= Len(calls[c].elems)
  /\ calls' = [calls EXCEPT
       ![c].mapped = Append(@, ObjectCallback(calls[c].elems[calls[c].i], calls[c].prefix)),
       ![c].i = @ + 1]
  /\ UNCHANGED <<tables, validIndex, lastNorm>>

\* .filter(...).join(" ") and the return of either responsive branch
JoinStep(c) ==
  /\ calls[c].pc \in {"map", "entries"}
  /\ calls[c].i > Len(calls[c].elems)
  /\ calls' = [calls EXCEPT ![c].pc = "done", ![c].outcome = "returned",
                            ![c].result = FilterJoin(calls[c].mapped)]
  /\ UNCHANGED <<tables, validIndex, lastNorm>>

\* the caller takes the result; the activation and its validIndex are gone
Return(c) ==
  /\ calls[c].pc = "done"
  /\ calls' = [calls EXCEPT ![c] = IdleCall]
  /\ validIndex' = [validIndex EXCEPT ![CursorSlot(c)] = 0]
  /\ UNCHANGED <<tables, lastNorm>>

\* a direct call normalizeSpacing(v)
Normalize(v) ==
  /\ lastNorm' = [called |-> TRUE, arg |-> v, ret |-> normalizeSpacing(v)]
  /\ UNCHANGED <<tables, calls, validIndex>>

(***************************************************************************)
(* Inputs.                                                                 *)
(***************************************************************************)
StepStrings == {spacingScaleDecl[i].key : i \in 1..Len(spacingScaleDecl)}
LengthStrings == {spacingScaleDecl[i].val : i \in 1..Len(spacingScaleDecl)}
RemEntries == {e \in {spacingScaleDecl[i] : i \in 1..Len(spacingScaleDecl)} :
                 endsWith(e.val, <<"r", "e", "m">>)}
\* the pixel string of a rem length: the rem magnitude times 16, then 'px'
PxEquivalent(rem) == NumberToString(Number(parseFloat(rem).v * 16)) \o <<"p", "x">>

OtherStrings ==
  {<<"a", "u", "t", "o">>, <<"0", "p", "x">>, <<"0", "r", "e", "m">>, <<>>, <<"1", "1">>, <<"r", "e", "m">>,
   <<"-", "1">>, <<"-", "4">>, <<"-", "0", ".", "5">>, <<"-", "0">>, <<"-">>, <<"-", "4", "p", "x">>, <<"-", "1", "6", "p", "x">>, <<"-", "1", "5", "p", "x">>,
   <<"-", "1", "r", "e", "m">>, <<"-", "0", ".", "5", "r", "e", "m">>, <<"-", "5", "v", "h">>, <<"-", "a", "u", "t", "o">>, <<" ", "-", "4", "p", "x">>,
   <<"1", "5", "p", "x">>, <<"7", "p", "x">>, <<"1", "6", ".", "5", "p", "x">>, <<"7", ".", "5", "p", "x">>, <<"0", ".", "5", "p", "x">>, <<" ", "8", "p", "x">>, <<"8", " ", "p", "x">>,
   <<"0", ".", "4", "5", "r", "e", "m">>, <<"1", ".", "1", "r", "e", "m">>, <<"1", ".", "0", "r", "e", "m">>, <<"5", "v", "h">>, <<"1", "0", "0", "%">>, <<"1", " ", "e", "m">>,
   <<"c", "a", "l", "c", "(", "1", "0", "0", "%", " ", "-", " ", "2", "0", "p", "x", ")">>, <<"c", "l", "a", "m", "p", "(", "1", "r", "e", "m", ",", " ", "2", "v", "w", ",", " ", "3", "r", "e", "m", ")">>, <<"v", "a", "r", "(", "-", "-", "g", "a", "p", ",", " ", "1", "r", "e", "m", ")">>,
   <<"c", "a", "l", "c", "(", "1", "r", "e", "m", " ", "+", " ", "8", "p", "x", ")">>, <<"1", "r", "e", "m", " ", "2", "r", "e", "m">>}

StringInputs ==
  StepStrings \cup LengthStrings \cup {PxEquivalent(e.val) : e \in RemEntries}
  \cup OtherStrings

NumberInputs ==
  {Number(n * (Den \div 2)) : n \in {-8, -5, -2, -1, 0, 1, 2, 3, 4, 5, 8, 12, 22, 192}}

ScalarInputs == {Str(s) : s \in StringInputs} \cup {Num(n) : n \in NumberInputs} \cup {Null}

\* sequences of length at most n over S
SeqsUpTo(S, n) == UNION {[1..k -> S] : k \in 0..n}

ElemInputs == {Null, Num(Number(2 * Den)), Str(<<"1", "6", "p", "x">>)}
\* the responsive arrays of the tests and of the module's header comment
ExampleArrays ==
  {<<Num(Number(2 * Den)), Str(<<"1", "6", "p", "x">>), Str(<<"1", "r", "e", "m">>)>>,
   <<Str(<<"8", "p", "x">>), Null, Str(<<"0", ".", "5", "r", "e", "m">>)>>,
   <<Num(Number(2 * Den)), Str(<<"1", "r", "e", "m">>), Null, Str(<<"1", "6", "p", "x">>)>>,
   <<Num(Number(2 * Den)), Num(Number(4 * Den)), Num(Number(6 * Den))>>}
ArrayInputs == {Array(a) : a \in SeqsUpTo(ElemInputs, MaxLen) \cup ExampleArrays}

KeyInputs == {<<"b", "a", "s", "e">>, <<"m", "d">>, <<"2">>}
EntryInputs == {[key |-> k, val |-> v] : k \in KeyInputs,
                  v \in {Null, Num(Number(2 * Den)), Str(<<"8", "p", "x">>)}}
\* an object literal never holds one key twice
DistinctKeys(es) == \A i, j \in 1..Len(es) : es[i].key = es[j].key => i = j
\* the responsive objects of the tests
ExampleObjects ==
  {<<[key |-> <<"b", "a", "s", "e">>, val |-> Str(<<"8", "p", "x">>)], [key |-> <<"m", "d">>, val |-> Num(Number(2 * Den))],
     [key |-> <<"l", "g">>, val |-> Str(<<"0", ".", "5", "r", "e", "m">>)]>>,
   <<[key |-> <<"b", "a", "s", "e">>, val |-> Str(<<"1", "6", "p", "x">>)], [key |-> <<"s", "m">>, val |-> Num(Number(4 * Den))],
     [key |-> <<"x", "l">>, val |-> Str(<<"1", "r", "e", "m">>)]>>}
ObjectInputs ==
  {Object(o) : o \in {es \in SeqsUpTo(EntryInputs, MaxEntries) : DistinctKeys(es)}
                     \cup ExampleObjects}

ValueInputs == {Scalar(v) : v \in ScalarInputs} \cup ArrayInputs \cup ObjectInputs
\* every key of propertyPrefixMap, and two identifiers that are not keys
\* ("inset" is a SpacingBaseProperty but no SpacingProperty)
PropertyInputs == DOMAIN propertyPrefixMap \cup {"inset", "spacing"}

\* the calls of the interleaved specification
ConcInputs ==
  {<<"mx", Array(<<Num(Number(2 * Den)), Null, Str(<<"1", "6", "p", "x">>)>>)>>,
   <<"padding", Array(<<Str(<<"8", "p", "x">>), Num(Number(2 * Den))>>)>>,
   <<"m", Object(<<[key |-> <<"m", "d">>, val |-> Num(Number(2 * Den))],
                   [key |-> <<"b", "a", "s", "e">>, val |-> Str(<<"8", "p", "x">>)]>>)>>,
   <<"gap", Scalar(Str(<<"1", "r", "e", "m">>))>>}

(***************************************************************************)
(* Specifications.                                                         *)
(***************************************************************************)
\* one convertSpacing call at a time, over every property and value
Next ==
  \/ Call(1, PropertyInputs \X ValueInputs)
  \/ MapStep(1)
  \/ EntryStep(1)
  \/ JoinStep(1)
  \/ Return(1)
Spec == Init /\ [][Next]_vars

\* NumCalls convertSpacing calls whose steps interleave in any order
NextConc ==
  \E c \in Slots :
    \/ Call(c, ConcInputs)
    \/ MapStep(c)
    \/ EntryStep(c)
    \/ JoinStep(c)
    \/ Return(c)
SpecConc == Init /\ [][NextConc]_vars

\* direct calls of the normalizer
NextNorm == \E v \in ScalarInputs : Normalize(v)
SpecNorm == Init /\ [][NextNorm]_vars

(***************************************************************************)
(* Claims.                                                                 *)
(***************************************************************************)
IsNull(v) == v.t = "null"
NonNull(items) == SelectSeq(items, LAMBDA v : ~IsNull(v))
\* number of non-null elements before position i (one-based) of items
NonNullBefore(items, i) == Len(NonNull(SubSeq(items, 1, i - 1)))
Done(c) == calls[c].pc = "done"

\* the class string C1 describes: the k-th non-null element, k from 0, with
\* no prefix for k = 0 and ladder[k] ':' otherwise, one space between tokens
C1_Expected(prefix, items) ==
  LET nn == NonNull(items)
  IN  Join([k \in 1..Len(nn) |->
              (IF k = 1 THEN <<>> ELSE breakpoints[k] \o <<":">>)
              \o prefix \o <<"-">> \o normalizeSpacing(nn[k])],
           <<" ">>)

C2_Expected(prefix, items) ==
  LET pos == SelectSeq([j \in 1..Len(items) |-> j], LAMBDA j : ~IsNull(items[j]))
  IN  Join([k \in 1..Len(pos) |->
              (IF pos[k] = 1 THEN <<>> ELSE breakpoints[pos[k]] \o <<":">>)
              \o prefix \o <<"-">> \o normalizeSpacing(items[pos[k]])],
           <<" ">>)

\* C2: in an ordered-sequence value a non-null element that follows a null is
\* prefixed with the ladder tier of its array position, so that
\* convertSpacing('padding', ['8px', null, '0.5rem']) returns 'p-2 md:p-2'.
C2_PositionalPrefix ==
  \A c \in Slots :
    LET call == calls[c]
    IN  (Done(c) /\ call.value.shape = "array" /\ Len(call.value.items) <= Len(breakpoints)) =>
          /\ call.result = C2_Expected(PrefixOf(call.property), call.value.items)
          /\ (call.property = "padding"
              /\ call.value = Array(<<Str(<<"8", "p", "x">>), Null, Str(<<"0", ".", "5", "r", "e", "m">>)>>))
               => call.result = <<"p", "-", "2", " ", "m", "d", ":", "p", "-", "2">>


NormCalledOn(s) == lastNorm.called /\ lastNorm.arg = Str(s)
\* s is a sign-and-digits number from end to end, as in '-1' or '-0.5'
IsWholeNumber(s) ==
  LET body == IF s # <<>> /\ Head(s) = "-" THEN Tail(s) ELSE s
      ni   == DigitRun(body)
      rest == SubSeq(body, ni + 1, Len(body))
  IN  /\ ni > 0
      /\ rest = <<>> \/ (Head(rest) = "." /\ DigitRun(Tail(rest)) = Len(rest) - 1 /\ Len(rest) > 1)
\* s is a number followed by a unit, as in '-4px' or '-1rem'
IsLengthWithUnit(s) ==
  /\ ~parseFloat(s).nan
  /\ ~IsWholeNumber(s)
  /\ \E u \in {<<"p", "x">>, <<"r", "e", "m">>, <<"v", "h">>} : endsWith(s, u) /\ IsWholeNumber(SubSeq(s, 1, Len(s) - Len(u)))

\* C3: for a string beginning with '-', a string that is a number n from end
\* to end normalizes as the number n does, to '[-' (|n| * 4) 'px]'; a length
\* with a unit keeps its magnitude and is not scaled by 4, so that '-4px'
\* gives '[-4px]' and '-1rem' gives '[-1rem]'.
C3_NegativeStrings ==
  (lastNorm.called /\ lastNorm.arg.t = "str" /\ startsWith(lastNorm.arg.s, <<"-">>)) =>
    LET s == lastNorm.arg.s
        n == parseFloat(s)
    IN  /\ (IsWholeNumber(s) /\ n.v < 0) =>
             /\ lastNorm.ret = normalizeSpacing(Num(n))
             /\ lastNorm.ret = <<"[", "-">> \o NumberToString(Number(Abs(n.v) * 4)) \o <<"p", "x", "]">>
        /\ IsLengthWithUnit(s) => lastNorm.ret = <<"[">> \o s \o <<"]">>

\* the tokens C4 calls canonical: '0', 'auto' and the numeric steps of the table
C4_CanonicalTokens == {<<"0">>, <<"a", "u", "t", "o">>} \cup (StepStrings \ {<<"p", "x">>})

\* C4: normalizeSpacing returns every canonical token ('0', 'auto', a step of
\* the scale table) unchanged when it is given the token as a string.
C4_CanonicalIdempotent ==
  \A t \in C4_CanonicalTokens : NormCalledOn(t) => lastNorm.ret = t

\* C5: for every entry (step, rem) of the scale table whose length ends in
\* 'rem', normalizeSpacing of the rem string returns the step, and so does
\* normalizeSpacing of the pixel string of 16 times the rem magnitude.
C5_RoundTrip ==
  \A e \in RemEntries :
    /\ NormCalledOn(e.val) => lastNorm.ret = e.key
    /\ NormCalledOn(PxEquivalent(e.val)) => lastNorm.ret = e.key

\* a fractional step reached from its pixel string: '14px' gives '3.5'
C5_Witness ==
  /\ NormCalledOn(<<"1", "4", "p", "x">>)
  /\ <<"1", "4", "p", "x">> = PxEquivalent(<<"0", ".", "8", "7", "5", "r", "e", "m">>)
  /\ lastNorm.ret = <<"3", ".", "5">>


\* the class tokens a finished call returned, before they were joined
TokensOf(call) ==
  IF call.value.shape = "scalar"
    THEN (IF call.result = <<>> THEN <<>> ELSE <<call.result>>)
    ELSE DropNulls(call.mapped)

\* what C6 allows after 'prefix-': a scale step (a step of the table, or the
\* decimal form of a positive number, which the normalizer takes for a step
\* without looking it up), 'auto', '0', or a bracketed literal without white
\* space
C6_ValidPayload(t) ==
  \/ t \in StepStrings \cup {<<"a", "u", "t", "o">>, <<"0">>}
  \/ IsWholeNumber(t) /\ Head(t) # "-"
  \/ /\ Len(t) >= 2
     /\ t[1] = "[" /\ t[Len(t)] = "]"
     /\ \A i \in 1..Len(t) : t[i] \notin WhiteSpace

\* tok is an optional breakpoint 'bp:' followed by 'prefix-' and a valid payload
C6_IsClassToken(tok, prefix) ==
  \E i \in 0..Len(tok) :
    /\ i = 0 \/ tok[i] = ":"
    /\ LET rest == SubSeq(tok, i + 1, Len(tok))
       IN  /\ startsWith(rest, prefix \o <<"-">>)
           /\ C6_ValidPayload(SubSeq(rest, Len(prefix) + 2, Len(rest)))

\* C6: every class token convertSpacing returns for a recognized property, for
\* a scalar, sequence or keyed value, is prefix-token with token a scale step,
\* 'auto', '0' or a bracketed literal that holds no white space, for every
\* string input and not only those containing 'calc' or 'clamp'.
C6_TokenForm ==
  \A c \in Slots :
    (Done(c) /\ calls[c].property \in DOMAIN propertyPrefixMap) =>
      \A k \in 1..Len(TokensOf(calls[c])) :
        C6_IsClassToken(TokensOf(calls[c])[k], propertyPrefixMap[calls[c].property])

\* C7: a call whose property identifier is no key of propertyPrefixMap fails
\* with an UnknownProperty condition and returns no class string, whatever the
\* shape of the value.
C7_UnknownPropertyFails ==
  \A c \in Slots :
    (Done(c) /\ calls[c].property \notin DOMAIN propertyPrefixMap) =>
      /\ calls[c].outcome = "UnknownProperty"
      /\ calls[c].result = <<>>

\* the class string of keyed entries taken in the given order: 'base' without
\* prefix, any other key k as 'k:', entries that normalize to '' dropped
C8_Tokens(prefix, entries) ==
  LET kept == SelectSeq(entries, LAMBDA e : normalizeSpacing(e.val) # <<>>)
  IN  Join([k \in 1..Len(kept) |->
              (IF kept[k].key = <<"b", "a", "s", "e">> THEN <<>> ELSE kept[k].key \o <<":">>)
              \o prefix \o <<"-">> \o normalizeSpacing(kept[k].val)],
           <<" ">>)

\* the entries of obj with the integer-like keys first, in ascending numeric
\* order, and the other keys after them in declaration order
C8_IntegerKeysFirst(obj) ==
  LET n    == Len(obj)
      prec(i, j) ==
        \/ IsArrayIndex(obj[i].key) /\ ~IsArrayIndex(obj[j].key)
        \/ /\ IsArrayIndex(obj[i].key) /\ IsArrayIndex(obj[j].key)
           /\ DigitsValue(obj[i].key) < DigitsValue(obj[j].key)
        \/ ~IsArrayIndex(obj[i].key) /\ ~IsArrayIndex(obj[j].key) /\ i < j
      p    == CHOOSE p \in [1..n -> 1..n] :
                \A a, b \in 1..n : a < b => prec(p[a], p[b])
  IN  [k \in 1..n |-> obj[p[k]]]

C9_ShorthandOf ==
  [p \in {"margin", "marginTop", "marginRight", "marginBottom", "marginLeft",
          "marginX", "marginY", "marginInline", "marginInlineStart",
          "marginInlineEnd", "marginBlock", "marginBlockStart", "marginBlockEnd",
          "padding", "paddingTop", "paddingRight", "paddingBottom", "paddingLeft",
          "paddingX", "paddingY", "paddingInline", "paddingInlineStart",
          "paddingInlineEnd", "paddingBlock", "paddingBlockStart", "paddingBlockEnd"} |->
     CASE p = "margin" -> "m" [] p = "marginTop" -> "mt" [] p = "marginRight" -> "mr"
       [] p = "marginBottom" -> "mb" [] p = "marginLeft" -> "ml"
       [] p = "marginX" -> "mx" [] p = "marginY" -> "my"
       [] p = "marginInline" -> "mx" [] p = "marginInlineStart" -> "ms"
       [] p = "marginInlineEnd" -> "me" [] p = "marginBlock" -> "my"
       [] p = "marginBlockStart" -> "mt" [] p = "marginBlockEnd" -> "mb"
       [] p = "padding" -> "p" [] p = "paddingTop" -> "pt" [] p = "paddingRight" -> "pr"
       [] p = "paddingBottom" -> "pb" [] p = "paddingLeft" -> "pl"
       [] p = "paddingX" -> "px" [] p = "paddingY" -> "py"
       [] p = "paddingInline" -> "px" [] p = "paddingInlineStart" -> "ps"
       [] p = "paddingInlineEnd" -> "pe" [] p = "paddingBlock" -> "py"
       [] p = "paddingBlockStart" -> "pt" [] p = "paddingBlockEnd" -> "pb"]

\* C9: a call on a long-form or logical property returns what convertSpacing
\* returns for its shorthand on the same value, for every value.
C9_ShorthandEquivalence ==
  \A c \in Slots :
    (Done(c) /\ calls[c].property \in DOMAIN C9_ShorthandOf) =>
      calls[c].result = convertSpacing(C9_ShorthandOf[calls[c].property], calls[c].value)

\* marginInlineStart on a responsive array, equal to what 'ms' gives
C9_Witness ==
  /\ Done(1)
  /\ calls[1].property = "marginInlineStart"
  /\ calls[1].value = Array(<<Num(Number(2 * Den)), Str(<<"1", "6", "p", "x">>), Str(<<"1", "r", "e", "m">>)>>)
  /\ calls[1].result = <<"m", "s", "-", "2", " ", "s", "m", ":", "m", "s", "-", "4", " ", "m", "d", ":", "m", "s", "-", "4">>
  /\ calls[1].result = convertSpacing("ms", calls[1].value)

\* C10: however the steps of the calls in flight interleave, a finished call
\* holds the string convertSpacing returns for its arguments when run alone,
\* and spacingScale, remToScaleMap and pxToScaleMap are as module
\* initialization left them.
C10_NoInterference ==
  /\ \A c \in Slots :
       Done(c) => calls[c].result = convertSpacing(calls[c].property, calls[c].value)
  /\ spacingScale = spacingScaleDecl
  /\ remToScaleMap = BuildRemToScaleMap(ObjectEntries(spacingScaleDecl), EmptyMap)
  /\ pxToScaleMap = BuildPxToScaleMap(ObjectEntries(spacingScaleDecl), EmptyMap)

\* one array call finished while another array call is in the middle of its map
C10_Witness ==
  /\ Done(1)
  /\ calls[1].value.shape = "array"
  /\ calls[1].result = <<"m", "x", "-", "2", " ", "s", "m", ":", "m", "x", "-", "4">>
  /\ calls[2].pc = "map"
  /\ calls[2].i = 2
  /\ validIndex[2] = 1


\* the entries of the scale table
ScaleEntries == {spacingScaleDecl[i] : i \in 1..Len(spacingScaleDecl)}
\* the length of a step in pixels, times Den: 16 times its rem magnitude, 1
\* for 'px', 0 for '0'
C11_StepPixels(e) ==
  IF e.key = <<"p", "x">> THEN Den
  ELSE IF e.key = <<"0">> THEN 0
  ELSE parseFloat(e.val).v * 16

\* C11: for a string 'Npx' with N >= 0, possibly fractional, normalizeSpacing
\* returns a step only if N is exactly the length of that step in pixels, and
\* returns '[Npx]' with N unchanged when no step has that length, so that
\* '16.5px' is not mapped to '4' and '7.5px' is not turned into '[7px]'.
C11_ExactPixels ==
  (lastNorm.called /\ lastNorm.arg.t = "str" /\ endsWith(lastNorm.arg.s, <<"p", "x">>)) =>
    LET s   == lastNorm.arg.s
        mag == SubSeq(s, 1, Len(s) - 2)
    IN  (IsWholeNumber(mag) /\ Head(mag) # "-") =>
          LET n == parseFloat(mag).v
          IN  /\ \A e \in ScaleEntries :
                   lastNorm.ret = e.key => C11_StepPixels(e) = n
              /\ (\A e \in ScaleEntries : C11_StepPixels(e) # n) =>
                   lastNorm.ret = <<"[">> \o s \o <<"]">>


(***************************************************************************)
(* Long responsive arrays.                                                 *)
(***************************************************************************)
\* longest ordered sequence of the long-array specification: one element
\* more than the ladder has tiers
MaxLongLen == 7

\* every array of nulls and of the number 2 up to MaxLongLen, on two properties
LongInputs ==
  {"m", "px"} \X {Array(a) : a \in SeqsUpTo({Null, Num(Number(2 * Den))}, MaxLongLen)}

\* one convertSpacing call at a time on an array of up to MaxLongLen elements
NextLong ==
  \/ Call(1, LongInputs)
  \/ MapStep(1)
  \/ JoinStep(1)
  \/ Return(1)
SpecLong == Init /\ [][NextLong]_vars

\* the breakpoint prefixes of the ladder: '', 'sm:', 'md:', 'lg:', 'xl:', '2xl:'
C12_LadderPrefixes == {<<>>, <<"s", "m", ":">>, <<"m", "d", ":">>, <<"l", "g", ":">>, <<"x", "l", ":">>, <<"2", "x", "l", ":">>}

\* C12: for an ordered sequence of any length every breakpoint prefix the call
\* emits is empty or one of 'sm:', 'md:', 'lg:', 'xl:', '2xl:', and the
\* cursor never indexes past the 6 tiers of the ladder, also when the
\* sequence has more than 6 non-null elements.
C12_PrefixInLadder ==
  \A c \in Slots :
    LET call == calls[c]
    IN  call.value.shape = "array" =>
          /\ \A k \in 1..Len(call.mapped) :
               call.mapped[k].def =>
                 \E b \in C12_LadderPrefixes :
                   startsWith(call.mapped[k].s, b \o call.prefix \o <<"-">>)
          \* the callback that left the cursor at k read breakpoints[k - 1]
          /\ call.pc = "map" => validIndex[c] - 1 < Len(breakpoints)
=============================================================================
